---------------------------- MODULE Spec2Model ----------------------------
(***************************************************************************)
(* Model of the investment projection engine of FinSmart                   *)
(* (src/investment_calculator.py): calculate_sip_returns,                  *)
(* calculate_lumpsum_returns, calculate_goal_based_sip and                 *)
(* calculate_step_up_sip, and the calculator tabs that call them.          *)
(*                                                                         *)
(* Numbers.  The engine computes on Python floats.  The model computes on  *)
(* exact rationals <<numerator, denominator>> in lowest terms with a       *)
(* positive denominator, so the arithmetic identities the engine relies on *)
(* are decided exactly and floating-point rounding is left out.  The pair  *)
(* <<0, 0>> is no number: it stands for a raised ZeroDivisionError.        *)
(* The annual-to-monthly conversion (1 + r/100) ** (1/12) is computed as a *)
(* twelfth root by search, so the annual rates are drawn from those whose  *)
(* monthly growth factor is rational.                                      *)
(***************************************************************************)
EXTENDS Integers, Sequences, FiniteSets, TLC

(***************************************************************************)
(* Bounds of the model.                                                    *)
(***************************************************************************)
MaxYears == 2
MaxRoot == 4
ValueLimit == 2000000000

(***************************************************************************)
(* Program constants.                                                      *)
(***************************************************************************)
MonthsPerYear == 12
Percent == 100

(***************************************************************************)
(* Exact rational arithmetic standing for Python's float operators.        *)
(***************************************************************************)
Abs(n) == IF n < 0 THEN -n ELSE n

RECURSIVE GCD(_, _)
GCD(a, b) == IF b = 0 THEN a ELSE GCD(b, a % b)

Norm(n, d) ==
    LET g == GCD(Abs(n), d)
    IN  IF n = 0 THEN <<0, 1>> ELSE <<n \div g, d \div g>>

R(n) == <<n, 1>>
Zero == <<0, 1>>
One == <<1, 1>>
ZeroDivisionError == <<0, 0>>

IsNumber(a) == a[2] > 0

RAdd(a, b) ==
    LET g == GCD(a[2], b[2])
        l == (a[2] \div g) * b[2]
    IN  Norm(a[1] * (l \div a[2]) + b[1] * (l \div b[2]), l)

RSub(a, b) == RAdd(a, <<-b[1], b[2]>>)

RMul(a, b) ==
    LET g1 == GCD(Abs(a[1]), b[2])
        g2 == GCD(Abs(b[1]), a[2])
    IN  IF a[1] = 0 \/ b[1] = 0 THEN Zero
        ELSE Norm((a[1] \div g1) * (b[1] \div g2), (a[2] \div g2) * (b[2] \div g1))

\* a / b: raises ZeroDivisionError when b is zero; an exception propagates.
RDiv(a, b) ==
    IF ~IsNumber(a) \/ ~IsNumber(b) \/ b[1] = 0 THEN ZeroDivisionError
    ELSE IF b[1] < 0 THEN RMul(a, <<-b[2], -b[1]>>)
    ELSE RMul(a, <<b[2], b[1]>>)

\* a ** n for a whole exponent n >= 0.
RECURSIVE RPow(_, _)
RPow(a, n) == IF n = 0 THEN One ELSE RMul(a, RPow(a, n - 1))

RLeq(a, b) == RSub(b, a)[1] >= 0
RLess(a, b) == RSub(b, a)[1] > 0
RAbs(a) == <<Abs(a[1]), a[2]>>

\* m = k^e, decided by repeated division.
RECURSIVE IsPower(_, _, _)
IsPower(m, k, e) ==
    IF e = 0 THEN m = 1
    ELSE m % k = 0 /\ IsPower(m \div k, k, e - 1)

IRoot(m, e) == CHOOSE k \in 1..MaxRoot : IsPower(m, k, e)

\* a ** (1/e) for a positive rational a that has a rational e-th root.
RRoot(a, e) == <<IRoot(a[1], e), IRoot(a[2], e)>>

(***************************************************************************)
(* The engine: src/investment_calculator.py, lines 7-164.                  *)
(* An array of Python index i is a sequence read at i + 1.                 *)
(***************************************************************************)

\* Mutant: the monthly growth factor taken for the monthly rate (no "- 1").
MonthlyRate_NoMinusOne(annual_return_rate) ==
    RRoot(RAdd(One, RDiv(annual_return_rate, R(Percent))), MonthsPerYear)

\* Convert annual return rate (in %) to monthly: (1 + r/100) ** (1/12) - 1.
MonthlyRate(annual_return_rate) ==
    RSub(RRoot(RAdd(One, RDiv(annual_return_rate, R(Percent))), MonthsPerYear), One)

\* Total number of months.
TotalMonths(time_years) == time_years * MonthsPerYear

\* np.zeros(n)
Zeros(n) == [i \in 1..n |-> Zero]

\* Mutant: the Month column counted from 0, range(total_months).
MonthColumn_ZeroBased(total_months) == [i \in 1..total_months |-> i - 1]

\* range(1, total_months + 1)
MonthColumn(total_months) == [i \in 1..total_months |-> i]

\* Mutant: the contribution stored without the carried total.
SipTotal_NoCarry(prev_total, monthly_investment) == monthly_investment

\* total_investment[month-1] + monthly_investment
SipTotal(prev_total, monthly_investment) == RAdd(prev_total, monthly_investment)

\* Mutant: the prior balance multiplied by the rate alone, without "1 +".
SipValue_RateOnly(prev_value, monthly_rate, monthly_investment) ==
    RAdd(RMul(prev_value, monthly_rate), monthly_investment)

\* Mutant: the contribution grows within its own period (annuity due).
SipValue_AnnuityDue(prev_value, monthly_rate, monthly_investment) ==
    RMul(RAdd(prev_value, monthly_investment), RAdd(One, monthly_rate))

\* (investment_value[month-1] * (1 + monthly_rate)) + monthly_investment
SipValue(prev_value, monthly_rate, monthly_investment) ==
    RAdd(RMul(prev_value, RAdd(One, monthly_rate)), monthly_investment)

\* for month in range(total_months): ...
RECURSIVE SipLoop(_, _, _, _, _, _)
SipLoop(month, total_months, monthly_investment, monthly_rate, total_investment, investment_value) ==
    IF month >= total_months
    THEN [Total_Investment |-> total_investment,
          Investment_Value |-> investment_value]
    ELSE IF month = 0
    THEN SipLoop(month + 1, total_months, monthly_investment, monthly_rate,
                 [total_investment EXCEPT ![month + 1] = monthly_investment],
                 [investment_value EXCEPT ![month + 1] = monthly_investment])
    ELSE SipLoop(month + 1, total_months, monthly_investment, monthly_rate,
                 [total_investment EXCEPT ![month + 1] =
                      SipTotal(total_investment[month], monthly_investment)],
                 [investment_value EXCEPT ![month + 1] =
                      SipValue(investment_value[month], monthly_rate,
                               monthly_investment)])

calculate_sip_returns(monthly_investment, annual_return_rate, time_years) ==
    LET monthly_rate == MonthlyRate(annual_return_rate)
        total_months == TotalMonths(time_years)
        arrays == SipLoop(0, total_months, monthly_investment, monthly_rate,
                          Zeros(total_months), Zeros(total_months))
    IN  [Month |-> MonthColumn(total_months),
         Total_Investment |-> arrays.Total_Investment,
         Investment_Value |-> arrays.Investment_Value]

\* np.arange(0, time_years + 1)
YearColumn(time_years) == [i \in 1..(time_years + 1) |-> i - 1]

\* Mutant: the rate fraction compounded without the "1 +".
LumpsumValue_NoOne(investment_amount, annual_return_rate, year) ==
    RMul(investment_amount, RPow(RDiv(annual_return_rate, R(Percent)), year))

\* Mutant: the monthly rate compounded once per year.
LumpsumValue_MonthlyRate(investment_amount, annual_return_rate, year) ==
    RMul(investment_amount,
         RPow(RAdd(One, RSub(RRoot(RAdd(One, RDiv(annual_return_rate, R(Percent))), MonthsPerYear), One)), year))

\* Mutant: simple interest, the rate applied to the principal each year.
LumpsumValue_SimpleInterest(investment_amount, annual_return_rate, year) ==
    RMul(investment_amount,
         RAdd(One, RMul(RDiv(annual_return_rate, R(Percent)), R(year))))

\* investment_amount * ((1 + annual_return_rate/100) ** year)
LumpsumValue(investment_amount, annual_return_rate, year) ==
    RMul(investment_amount,
         RPow(RAdd(One, RDiv(annual_return_rate, R(Percent))), year))

calculate_lumpsum_returns(investment_amount, annual_return_rate, time_years) ==
    LET years == YearColumn(time_years)
    IN  [Year |-> years,
         Investment_Value |->
             [i \in 1..Len(years) |->
                 LumpsumValue(investment_amount, annual_return_rate, years[i])]]

\* Mutant: the inverse of the ordinary annuity, without / (1 + monthly_rate).
GoalSip_OrdinaryAnnuity(target_amount, monthly_rate, total_months) ==
    RDiv(target_amount,
         RDiv(RSub(RPow(RAdd(One, monthly_rate), total_months), One),
              monthly_rate))

\* target_amount / (((1 + monthly_rate) ** total_months - 1) / monthly_rate)
\*               / (1 + monthly_rate)
GoalSip(target_amount, monthly_rate, total_months) ==
    RDiv(RDiv(target_amount,
              RDiv(RSub(RPow(RAdd(One, monthly_rate), total_months), One),
                   monthly_rate)),
         RAdd(One, monthly_rate))

calculate_goal_based_sip(target_amount, annual_return_rate, time_years) ==
    LET monthly_rate == MonthlyRate(annual_return_rate)
        total_months == TotalMonths(time_years)
    IN  GoalSip(target_amount, monthly_rate, total_months)

\* Mutant: the step-up applied one month early, at the last month of a year.
CurrentMonthlySip_EarlyStep(month, initial_monthly_investment, annual_step_up_rate, monthly_investment) ==
    LET year == (month + 1) \div MonthsPerYear
    IN  IF (month + 1) % MonthsPerYear = 0 /\ month > 0
        THEN RMul(initial_monthly_investment,
                  RPow(RAdd(One, RDiv(annual_step_up_rate, R(Percent))), year))
        ELSE IF month = 0
        THEN initial_monthly_investment
        ELSE monthly_investment[month]

\* Mutant: "same as previous month" reads this month's still-empty slot.
CurrentMonthlySip_StaleRead(month, initial_monthly_investment, annual_step_up_rate, monthly_investment) ==
    LET year == month \div MonthsPerYear
    IN  IF month % MonthsPerYear = 0 /\ month > 0
        THEN RMul(initial_monthly_investment,
                  RPow(RAdd(One, RDiv(annual_step_up_rate, R(Percent))), year))
        ELSE IF month = 0
        THEN initial_monthly_investment
        ELSE monthly_investment[month + 1]

\* The SIP amount for this month with step-up (lines 134-142).
CurrentMonthlySip(month, initial_monthly_investment, annual_step_up_rate, monthly_investment) ==
    LET year == month \div MonthsPerYear
    IN  IF month % MonthsPerYear = 0 /\ month > 0
        THEN RMul(initial_monthly_investment,
                  RPow(RAdd(One, RDiv(annual_step_up_rate, R(Percent))), year))
        ELSE IF month = 0
        THEN initial_monthly_investment
        ELSE monthly_investment[month]

\* total_investment[month-1] + current_monthly_sip
StepUpTotal(prev_total, current_monthly_sip) ==
    RAdd(prev_total, current_monthly_sip)

\* Mutant: growth applied to the new contribution as well.
StepUpValue_AnnuityDue(prev_value, monthly_rate, current_monthly_sip) ==
    RMul(RAdd(prev_value, current_monthly_sip), RAdd(One, monthly_rate))

\* (investment_value[month-1] * (1 + monthly_rate)) + current_monthly_sip
StepUpValue(prev_value, monthly_rate, current_monthly_sip) ==
    RAdd(RMul(prev_value, RAdd(One, monthly_rate)), current_monthly_sip)

RECURSIVE StepUpLoop(_, _, _, _, _, _, _, _)
StepUpLoop(month, total_months, initial_monthly_investment, annual_step_up_rate, monthly_rate, monthly_investment, total_investment, investment_value) ==
    IF month >= total_months
    THEN [Monthly_SIP |-> monthly_investment,
          Total_Investment |-> total_investment,
          Investment_Value |-> investment_value]
    ELSE
      LET current_monthly_sip ==
              CurrentMonthlySip(month, initial_monthly_investment,
                                annual_step_up_rate, monthly_investment)
      IN  StepUpLoop(month + 1, total_months, initial_monthly_investment,
                     annual_step_up_rate, monthly_rate,
                     [monthly_investment EXCEPT ![month + 1] = current_monthly_sip],
                     [total_investment EXCEPT ![month + 1] =
                          IF month = 0 THEN current_monthly_sip
                          ELSE StepUpTotal(total_investment[month],
                                           current_monthly_sip)],
                     [investment_value EXCEPT ![month + 1] =
                          IF month = 0 THEN current_monthly_sip
                          ELSE StepUpValue(investment_value[month], monthly_rate,
                                           current_monthly_sip)])

calculate_step_up_sip(initial_monthly_investment, annual_step_up_rate, annual_return_rate, time_years) ==
    LET monthly_rate == MonthlyRate(annual_return_rate)
        total_months == TotalMonths(time_years)
        arrays == StepUpLoop(0, total_months, initial_monthly_investment,
                             annual_step_up_rate, monthly_rate,
                             Zeros(total_months), Zeros(total_months),
                             Zeros(total_months))
    IN  [Month |-> MonthColumn(total_months),
         Monthly_SIP |-> arrays.Monthly_SIP,
         Total_Investment |-> arrays.Total_Investment,
         Investment_Value |-> arrays.Investment_Value]

(***************************************************************************)
(* A call in progress.  The local variables of a call (its parameters, the *)
(* loop index, the arrays it allocates) form a frame; a call runs as one   *)
(* step that enters the function, one step per loop iteration, and one     *)
(* step that returns.                                                      *)
(***************************************************************************)
EngineFunctions ==
    {"calculate_sip_returns", "calculate_lumpsum_returns",
     "calculate_goal_based_sip", "calculate_step_up_sip"}

\* No call owns the frame.
NoFrame ==
    [fn |-> "none", amount |-> Zero, annual_return_rate |-> Zero, time_years |-> 0,
     annual_step_up_rate |-> Zero, monthly_rate |-> Zero, iterations |-> 0, i |-> 0,
     monthly_investment |-> <<>>, total_investment |-> <<>>, investment_value |-> <<>>]

\* The locals of fn once the statements before its loop have run (lines
\* 19-27, 63-64, 91-94, 122-130).  amount is the first parameter of fn.
NewFrame(fn, amount, annual_return_rate, time_years, annual_step_up_rate) ==
    LET iterations ==
            IF fn = "calculate_lumpsum_returns" THEN time_years + 1
            ELSE IF fn = "calculate_goal_based_sip" THEN 0
            ELSE TotalMonths(time_years)
    IN  [fn |-> fn,
         amount |-> amount,
         annual_return_rate |-> annual_return_rate,
         time_years |-> time_years,
         annual_step_up_rate |-> annual_step_up_rate,
         monthly_rate |-> IF fn = "calculate_lumpsum_returns" THEN Zero
                          ELSE MonthlyRate(annual_return_rate),
         iterations |-> iterations,
         i |-> 0,
         monthly_investment |->
             Zeros(IF fn = "calculate_step_up_sip" THEN iterations ELSE 0),
         total_investment |->
             Zeros(IF fn \in {"calculate_sip_returns", "calculate_step_up_sip"}
                   THEN iterations ELSE 0),
         investment_value |-> Zeros(iterations)]

\* Mutant: the function seeds its first parameter from the session's points.
EnterCall_ReadsSession(fn, amount, annual_return_rate, time_years, annual_step_up_rate, session) ==
    NewFrame(fn, RAdd(amount, R(session.points)), annual_return_rate, time_years,
             annual_step_up_rate)

\* Entering fn: its locals depend on its parameters only; the session state
\* of the application is not referenced anywhere in lines 7-164.
EnterCall(fn, amount, annual_return_rate, time_years, annual_step_up_rate, session) ==
    NewFrame(fn, amount, annual_return_rate, time_years, annual_step_up_rate)

\* One iteration of the loop of frame.fn (lines 30-39, 67-68, 133-154).
LoopBody(frame) ==
    LET month == frame.i
        first == month = 0
    IN  IF frame.fn = "calculate_sip_returns"
        THEN [frame EXCEPT
                 !.i = month + 1,
                 !.total_investment[month + 1] =
                     IF first THEN frame.amount
                     ELSE SipTotal(frame.total_investment[month], frame.amount),
                 !.investment_value[month + 1] =
                     IF first THEN frame.amount
                     ELSE SipValue(frame.investment_value[month], frame.monthly_rate,
                                   frame.amount)]
        ELSE IF frame.fn = "calculate_lumpsum_returns"
        THEN [frame EXCEPT
                 !.i = month + 1,
                 !.investment_value[month + 1] =
                     LumpsumValue(frame.amount, frame.annual_return_rate,
                                  YearColumn(frame.time_years)[month + 1])]
        ELSE IF frame.fn = "calculate_step_up_sip"
        THEN LET current_monthly_sip ==
                     CurrentMonthlySip(month, frame.amount, frame.annual_step_up_rate,
                                       frame.monthly_investment)
             IN  [frame EXCEPT
                     !.i = month + 1,
                     !.monthly_investment[month + 1] = current_monthly_sip,
                     !.total_investment[month + 1] =
                         IF first THEN current_monthly_sip
                         ELSE StepUpTotal(frame.total_investment[month],
                                          current_monthly_sip),
                     !.investment_value[month + 1] =
                         IF first THEN current_monthly_sip
                         ELSE StepUpValue(frame.investment_value[month],
                                          frame.monthly_rate, current_monthly_sip)]
        ELSE frame

\* No value returned (yet).
NoResult == [returned |-> FALSE]

\* What frame.fn returns after its loop (lines 42-48, 71-76, 104-106, 157-164).
ReturnValue(frame) ==
    IF frame.fn = "calculate_sip_returns"
    THEN [Month |-> MonthColumn(frame.iterations),
          Total_Investment |-> frame.total_investment,
          Investment_Value |-> frame.investment_value]
    ELSE IF frame.fn = "calculate_lumpsum_returns"
    THEN [Year |-> YearColumn(frame.time_years),
          Investment_Value |-> frame.investment_value]
    ELSE IF frame.fn = "calculate_goal_based_sip"
    THEN GoalSip(frame.amount, frame.monthly_rate, TotalMonths(frame.time_years))
    ELSE IF frame.fn = "calculate_step_up_sip"
    THEN [Month |-> MonthColumn(frame.iterations),
          Monthly_SIP |-> frame.monthly_investment,
          Total_Investment |-> frame.total_investment,
          Investment_Value |-> frame.investment_value]
    ELSE NoResult

\* What a caller gets from fn when nothing else runs.
CalledAlone(fn, amount, annual_return_rate, time_years, annual_step_up_rate) ==
    IF fn = "calculate_sip_returns"
    THEN calculate_sip_returns(amount, annual_return_rate, time_years)
    ELSE IF fn = "calculate_lumpsum_returns"
    THEN calculate_lumpsum_returns(amount, annual_return_rate, time_years)
    ELSE IF fn = "calculate_goal_based_sip"
    THEN calculate_goal_based_sip(amount, annual_return_rate, time_years)
    ELSE calculate_step_up_sip(amount, annual_step_up_rate, annual_return_rate,
                               time_years)

\* Mutant: the locals live in one frame that every call uses (module-level
\* variables).
FrameOf_Shared(caller) == 1

\* The frame of a call is its own.
FrameOf(caller) == caller

(***************************************************************************)
(* Session state: gamification.py.  A date is the number of its day; a     *)
(* badge is its name; a completed challenge is its id; a message is its    *)
(* kind.                                                                   *)
(***************************************************************************)
Min(a, b) == IF a <= b THEN a ELSE b

\* last_active = None
NoDate == 0 - 1

\* generate_challenges (lines 134-154): the ten challenges, by id.
ChallengePoints == <<30, 20, 50, 25, 40, 15, 35, 30, 45, 40>>
ProgressMax == <<5, 10, 3, 5, 4, 3, 8, 3, 3, 5>>
generate_challenges ==
    [id \in 1..Len(ChallengePoints) |->
        [id |-> id, points |-> ChallengePoints[id], progress |-> 0,
         progress_max |-> ProgressMax[id]]]

\* initialize_gamification, lines 10-29: the keys of a session without them.
NewSession ==
    [points |-> 0, streak |-> 0, last_active |-> NoDate, badges |-> <<>>,
     challenges |-> generate_challenges, completed_challenges |-> <<>>,
     level |-> 1, point_messages |-> <<>>]

\* Points needed for each level: 100 * (2 ** (level - 1)).
PointsNeeded_NextLevel(level) == 100 * (2 ^ level)
PointsNeeded(level) == 100 * (2 ^ (level - 1))

\* any(badge["name"] == badge_name for badge in st.session_state.badges)
HasBadge(session, badge_name) ==
    \E i \in 1..Len(session.badges) : session.badges[i] = badge_name

\* The badges of check_level_up, check_streak_badges and complete_challenge.
NoBadge == "none"
LevelBadge(level) ==
    IF level = 5 THEN "Finance Apprentice"
    ELSE IF level = 10 THEN "Finance Expert"
    ELSE IF level = 20 THEN "Finance Master"
    ELSE NoBadge
StreakBadge(streak) ==
    IF streak = 7 THEN "Weekly Warrior"
    ELSE IF streak = 30 THEN "Monthly Maven"
    ELSE IF streak = 100 THEN "Centurion"
    ELSE NoBadge
ChallengeBadge(challenge_id) ==
    IF challenge_id = 1 THEN "Budget Planner"
    ELSE IF challenge_id = 3 THEN "Saving Champion"
    ELSE IF challenge_id = 5 THEN "Investment Planner"
    ELSE IF challenge_id = 10 THEN "Consistency King"
    ELSE NoBadge

RECURSIVE add_points(_, _), check_level_up(_), award_badge(_, _)

award_badge_NoDuplicateCheck(session, badge_name) ==
    add_points([session EXCEPT !.badges = Append(@, badge_name),
                               !.point_messages = Append(@, "New Badge")], 50)

\* award_badge (lines 110-132): nothing for a badge the session has; else
\* the badge, its message and 50 points.
award_badge(session, badge_name) ==
    IF HasBadge(session, badge_name)
    THEN session
    ELSE add_points([session EXCEPT !.badges = Append(@, badge_name),
                                    !.point_messages = Append(@, "New Badge")],
                    50)

\* check_level_up (lines 82-99): one level at most, and the badge of the
\* level reached.
check_level_up(session) ==
    IF session.points >= PointsNeeded(session.level)
    THEN LET leveled == [session EXCEPT
                            !.level = @ + 1,
                            !.point_messages = Append(@, "Level Up!")]
         IN  IF LevelBadge(leveled.level) # NoBadge
             THEN award_badge(leveled, LevelBadge(leveled.level))
             ELSE leveled
    ELSE session

\* add_points(points, message) (lines 70-80), called with a message.
add_points(session, points) ==
    LET leveled == check_level_up([session EXCEPT !.points = @ + points])
    IN  [leveled EXCEPT !.point_messages = Append(@, "points")]

\* check_streak_badges (lines 101-108).
check_streak_badges(session) ==
    IF StreakBadge(session.streak) # NoBadge
    THEN award_badge(session, StreakBadge(session.streak))
    ELSE session

\* streak_points = min(10 + (streak // 5) * 5, 50)
StreakPoints(streak) == Min(10 + (streak \div 5) * 5, 50)

check_streak_NoReset(session, today) ==
    IF session.last_active = NoDate
    THEN add_points([session EXCEPT !.streak = 1, !.last_active = today], 10)
    ELSE IF today - session.last_active = 0
    THEN session
    ELSE [check_streak_badges(add_points([session EXCEPT !.streak = @ + 1],
                                         StreakPoints(session.streak + 1)))
             EXCEPT !.last_active = today]

\* check_streak (lines 34-68) on the day `today`.  last_active is only ever
\* written by this function, as a date, so the parsing of a string (lines
\* 47-51) never runs.
check_streak(session, today) ==
    IF session.last_active = NoDate
    THEN add_points([session EXCEPT !.streak = 1, !.last_active = today], 10)
    ELSE LET days == today - session.last_active
             streaked ==
                 IF days = 1
                 THEN check_streak_badges(
                          add_points([session EXCEPT !.streak = @ + 1],
                                     StreakPoints(session.streak + 1)))
                 ELSE IF days = 0
                 THEN session
                 ELSE IF session.streak > 0
                 THEN add_points([session EXCEPT !.streak = 1], 10)
                 ELSE session
         IN  [streaked EXCEPT !.last_active = today]

\* initialize_gamification (lines 9-32) of a session that has its keys.
initialize_gamification(session, today) == check_streak(session, today)

\* challenge["id"] in [c["id"] for c in completed_challenges]
IsCompleted(session, challenge_id) ==
    \E i \in 1..Len(session.completed_challenges) :
        session.completed_challenges[i] = challenge_id

complete_challenge_Unguarded(session, challenge_id) ==
    LET rewarded ==
            add_points([session EXCEPT
                           !.completed_challenges = Append(@, challenge_id)],
                       session.challenges[challenge_id].points)
    IN  IF ChallengeBadge(challenge_id) # NoBadge
        THEN award_badge(rewarded, ChallengeBadge(challenge_id))
        ELSE rewarded

\* complete_challenge (lines 177-195): for a challenge not yet completed, the
\* entry in completed_challenges, the reward and the badge.
complete_challenge(session, challenge_id) ==
    IF IsCompleted(session, challenge_id)
    THEN session
    ELSE LET rewarded ==
                 add_points([session EXCEPT
                                !.completed_challenges = Append(@, challenge_id)],
                            session.challenges[challenge_id].points)
         IN  IF ChallengeBadge(challenge_id) # NoBadge
             THEN award_badge(rewarded, ChallengeBadge(challenge_id))
             ELSE rewarded

\* Lines 163-167: the increment of a number <<numerator, denominator>>: a
\* whole number counts as itself, any other float as 1.
IncrementOf(progress_increment) ==
    IF progress_increment[2] = 1 THEN progress_increment[1] ELSE 1

\* challenge["progress"] = value, and complete_challenge at progress_max
\* (lines 168-171, 281-283).
WithProgress(session, challenge_id, value) ==
    LET progressed ==
            [session EXCEPT !.challenges[challenge_id].progress = value]
    IN  IF value >= session.challenges[challenge_id].progress_max
        THEN complete_challenge(progressed, challenge_id)
        ELSE progressed

\* update_challenge_progress (lines 156-175); the returned flag is unused.
update_challenge_progress(session, challenge_id, progress_increment) ==
    IF /\ challenge_id \in DOMAIN session.challenges
       /\ ~IsCompleted(session, challenge_id)
    THEN WithProgress(session, challenge_id,
                      Min(session.challenges[challenge_id].progress
                              + IncrementOf(progress_increment),
                          session.challenges[challenge_id].progress_max))
    ELSE session

\* check_challenges_for_budget_performance (lines 275-283) of a list of
\* `under_budget` categories.
check_challenges_for_budget_performance(session, under_budget) ==
    IF under_budget > 0
    THEN WithProgress(session, 3,
                      Min(under_budget, session.challenges[3].progress_max))
    ELSE session

\* check_challenges_for_investing (lines 225-240): 0.25 to challenge 5 for
\* any of the four calculators, 1 to challenge 9 for "goal".
Calculators == {"sip", "lumpsum", "goal", "stepup"}
check_challenges_for_investing(session, calculator_used) ==
    LET used == IF calculator_used \in Calculators
                THEN update_challenge_progress(session, 5, <<1, 4>>)
                ELSE session
    IN  IF calculator_used = "goal"
        THEN update_challenge_progress(used, 9, R(1))
        ELSE used

\* check_challenges_for_export (lines 247-273).
ExportFormats == {"excel", "pdf", "csv"}
ExportProgress(session) == session.challenges[6].progress
SetExportProgress(session, value) ==
    [session EXCEPT !.challenges[6].progress = value]
check_challenges_for_export(session, export_format) ==
    IF export_format = "excel"
    THEN IF ExportProgress(session) = 0
         THEN SetExportProgress(session, 1)
         ELSE IF ExportProgress(session) = 2
         THEN complete_challenge(SetExportProgress(session, 3), 6)
         ELSE session
    ELSE IF export_format = "pdf"
    THEN IF ExportProgress(session) = 0
         THEN SetExportProgress(session, 2)
         ELSE IF ExportProgress(session) = 1
         THEN complete_challenge(SetExportProgress(session, 3), 6)
         ELSE session
    ELSE IF export_format = "csv"
    THEN IF ExportProgress(session) < 2
         THEN SetExportProgress(session, ExportProgress(session) + 1)
         ELSE complete_challenge(SetExportProgress(session, 3), 6)
    ELSE session

\* display_gamification_elements (lines 285-313): what the progress bar and
\* its caption show.  The fraction is kept as numerator and denominator.
Clamp(num, den) == IF num < 0 THEN 0 ELSE IF num > den THEN den ELSE num
ProgressShown(session) ==
    LET points_needed == 100 * (2 ^ (session.level - 1))
        next_level_points == 100 * (2 ^ session.level)
    IN  [level |-> session.level,
         points |-> session.points,
         next_level_points |-> next_level_points,
         progress |-> <<Clamp(session.points - points_needed,
                              next_level_points - points_needed),
                        next_level_points - points_needed>>]
NothingShown ==
    [level |-> 0, points |-> 0, next_level_points |-> 0, progress |-> <<0, 1>>]

(***************************************************************************)
(* Decimal enclosures.  An annual rate such as 12% has no rational monthly *)
(* growth factor, so for the rates of the calculator forms the engine is   *)
(* also computed on enclosures <<lo, hi>>: two fixed-point integers with   *)
(* lo <= x * scale <= hi for the real number x the float stands for.       *)
(* Factors are held at FactorScale, currency amounts at AmountScale.       *)
(* Every operation rounds lo down and hi up.                               *)
(***************************************************************************)
Limb == 10^3
FactorScale == Limb^3
GrowthScale == Limb^2
AmountScale == Limb

\* The four base-Limb digits of a, lowest first.
Limbs(a) == <<a % Limb, (a \div Limb) % Limb, (a \div (Limb * Limb)) % Limb, a \div (Limb * Limb * Limb)>>

\* <<floor(a * b / Limb^k), whether the division is exact>> for k = 2 or 3,
\* by long multiplication on the digits so that no intermediate exceeds
\* 32 bits.
FxMulAt(a, b, k) ==
    LET x == Limbs(a)
        y == Limbs(b)
        p0 == x[1] * y[1]
        p1 == x[1] * y[2] + x[2] * y[1]
        p2 == x[1] * y[3] + x[2] * y[2] + x[3] * y[1]
        p3 == x[1] * y[4] + x[2] * y[3] + x[3] * y[2] + x[4] * y[1]
        p4 == x[2] * y[4] + x[3] * y[3] + x[4] * y[2]
        p5 == x[3] * y[4] + x[4] * y[3]
        p6 == x[4] * y[4]
        t1 == p1 + (p0 \div Limb)
        t2 == p2 + (t1 \div Limb)
        high == p4 + p5 * Limb + p6 * Limb * Limb
    IN  IF k = 3
        THEN <<p3 + (t2 \div Limb) + high * Limb,
               p0 % Limb = 0 /\ t1 % Limb = 0 /\ t2 % Limb = 0>>
        ELSE <<t2 + p3 * Limb + high * Limb * Limb,
               p0 % Limb = 0 /\ t1 % Limb = 0>>

FxMulFloorAt(a, b, k) == FxMulAt(a, b, k)[1]
FxMulCeilAt(a, b, k) == LET m == FxMulAt(a, b, k) IN IF m[2] THEN m[1] ELSE m[1] + 1

\* Products of a value with a factor held at FactorScale.
FxMul(a, b) == FxMulAt(a, b, 3)
FxMulFloor(a, b) == FxMulFloorAt(a, b, 3)
FxMulCeil(a, b) == FxMulCeilAt(a, b, 3)

\* floor and ceiling of a * n / d for small n and d.
ScaleFloor(a, n, d) == (a \div d) * n + ((a % d) * n) \div d
ScaleCeil(a, n, d) == (a \div d) * n + ((a % d) * n + d - 1) \div d

\* The enclosure at FactorScale of a rational q >= 0.
FxOfRational(q) == <<ScaleFloor(FactorScale, q[1], q[2]), ScaleCeil(FactorScale, q[1], q[2])>>

\* An upper bound of g^n stays <= x (g >= 1, so the powers do not decrease).
RECURSIVE PowCeilLeq(_, _, _, _)
PowCeilLeq(acc, g, n, x) ==
    IF acc > x THEN FALSE
    ELSE IF n = 0 THEN TRUE
    ELSE \E product \in {FxMulCeil(acc, g)} : PowCeilLeq(product, g, n - 1, x)

\* A lower bound of g^n stays < x.
RECURSIVE PowFloorLess(_, _, _, _)
PowFloorLess(acc, g, n, x) ==
    IF acc >= x THEN FALSE
    ELSE IF n = 0 THEN TRUE
    ELSE \E product \in {FxMulFloor(acc, g)} : PowFloorLess(product, g, n - 1, x)

\* g is certainly at most (below = TRUE: certainly below) the n-th root of x.
UnderRoot(g, n, x, below) ==
    /\ g <= x
    /\ IF below THEN PowFloorLess(FactorScale, g, n, x)
       ELSE PowCeilLeq(FactorScale, g, n, x)

\* The digit e of weight 10^k that keeps base + e * 10^k under the root.
RootDigit(base, k, n, x, below) ==
    CHOOSE e \in 0..9 :
        /\ e > 0 => UnderRoot(base + e * 10^k, n, x, below)
        /\ e < 9 => ~UnderRoot(base + (e + 1) * 10^k, n, x, below)

\* The largest g >= base with UnderRoot, found digit by digit from 10^k down.
RECURSIVE RootSearch(_, _, _, _, _)
RootSearch(base, k, n, x, below) ==
    IF k < 0 THEN base
    ELSE CHOOSE g \in {RootSearch(found, k - 1, n, x, below) :
                          found \in {base + RootDigit(base, k, n, x, below) * 10^k}} : TRUE

\* The digits of FactorScale below the unit.
RootDigits == 3 * 3 - 1

\* The enclosure of x ** (1/n) for an enclosure x of a number >= 1.
FxRoot(x, n) ==
    CHOOSE root \in
        {<<RootSearch(FactorScale, RootDigits, n, lo, FALSE),
           IF hi <= FactorScale THEN FactorScale
           ELSE RootSearch(FactorScale, RootDigits, n, hi, TRUE) + 1>> :
             lo \in {x[1]}, hi \in {x[2]}} : TRUE

\* Convert annual return rate (in %) to monthly: (1 + r/100) ** (1/12) - 1.
FxMonthlyRate(annual_return_rate) ==
    LET g == FxRoot(FxOfRational(RAdd(One, RDiv(annual_return_rate, R(Percent)))), MonthsPerYear)
    IN  <<g[1] - FactorScale, g[2] - FactorScale>>

\* Mutant: the contribution is added before the month's growth.
FxSipValue_AnnuityDue(prev_value, monthly_rate, monthly_investment) ==
    <<FxMulFloor(prev_value[1] + monthly_investment, FactorScale + monthly_rate[1]),
      FxMulCeil(prev_value[2] + monthly_investment, FactorScale + monthly_rate[2])>>

\* (investment_value[month-1] * (1 + monthly_rate)) + monthly_investment
FxSipValue(prev_value, monthly_rate, monthly_investment) ==
    <<FxMulFloor(prev_value[1], FactorScale + monthly_rate[1]) + monthly_investment,
      FxMulCeil(prev_value[2], FactorScale + monthly_rate[2]) + monthly_investment>>

\* The body of the loop for one month, on the two arrays (amounts at
\* AmountScale).
FxSipStep(month, monthly_investment, monthly_rate, arrays) ==
    IF month = 0
    THEN [Total_Investment |->
              [arrays.Total_Investment EXCEPT ![month + 1] = monthly_investment],
          Investment_Value |->
              [arrays.Investment_Value EXCEPT ![month + 1] =
                   <<monthly_investment, monthly_investment>>]]
    ELSE [Total_Investment |->
              [arrays.Total_Investment EXCEPT ![month + 1] =
                   arrays.Total_Investment[month] + monthly_investment],
          Investment_Value |->
              [arrays.Investment_Value EXCEPT ![month + 1] =
                   FxSipValue(arrays.Investment_Value[month], monthly_rate,
                              monthly_investment)]]

\* for month in range(total_months): ...   Each month's arrays are computed
\* once and named (updated) before the next month reads them.
RECURSIVE FxSipLoop(_, _, _, _, _)
FxSipLoop(month, total_months, monthly_investment, monthly_rate, arrays) ==
    IF month >= total_months THEN arrays
    ELSE CHOOSE done \in
             {FxSipLoop(month + 1, total_months, monthly_investment, monthly_rate, updated) :
                  updated \in {FxSipStep(month, monthly_investment, monthly_rate, arrays)}} :
             TRUE

\* calculate_sip_returns on enclosures, for a whole monthly_investment.
\* monthly_rate is computed once, as the assignment of line 20 does.
FxCalculateSipReturns(monthly_investment, annual_return_rate, time_years) ==
    LET total_months == TotalMonths(time_years)
        Simulate(monthly_rate) ==
            LET arrays == FxSipLoop(0, total_months, monthly_investment * AmountScale,
                                    monthly_rate,
                                    [Total_Investment |-> [i \in 1..total_months |-> 0],
                                     Investment_Value |-> [i \in 1..total_months |-> <<0, 0>>]])
            IN  [Month |-> MonthColumn(total_months),
                 Total_Investment |-> arrays.Total_Investment,
                 Investment_Value |-> arrays.Investment_Value,
                 monthly_rate |-> monthly_rate]
    IN  CHOOSE df \in {Simulate(monthly_rate) :
                          monthly_rate \in {FxMonthlyRate(annual_return_rate)}} : TRUE

(***************************************************************************)
(* The summaries of the SIP tab and the lump-sum tab:                      *)
(* show_investment_calculator, lines 251-269 and 407-425.                  *)
(***************************************************************************)

\* Mutant: the real return taken as the difference of the two rates.
RealReturnRate_Difference(annual_return_rate, inflation_rate) ==
    RDiv(RSub(annual_return_rate, inflation_rate), R(Percent))

\* (1 + annual_return_rate/100) / (1 + inflation_rate/100) - 1
RealReturnRate(annual_return_rate, inflation_rate) ==
    RSub(RDiv(RAdd(One, RDiv(annual_return_rate, R(Percent))),
              RAdd(One, RDiv(inflation_rate, R(Percent)))),
         One)

\* The enclosure at GrowthScale of the rational q.
FxGrowthOfRational(q) ==
    <<ScaleFloor(GrowthScale, q[1], q[2]), ScaleCeil(GrowthScale, q[1], q[2])>>

\* The enclosure at GrowthScale of acc * b ** n for enclosures acc and b.
RECURSIVE FxPowLoop(_, _, _)
FxPowLoop(acc, b, n) ==
    IF n = 0 THEN acc
    ELSE CHOOSE power \in
             {FxPowLoop(product, b, n - 1) :
                  product \in {<<FxMulFloorAt(acc[1], b[1], 2),
                                 FxMulCeilAt(acc[2], b[2], 2)>>}} : TRUE

\* The enclosure at GrowthScale of q ** n for a rational q >= 1.
FxPow(q, n) ==
    CHOOSE power \in {FxPowLoop(<<GrowthScale, GrowthScale>>, b, n) :
                         b \in {FxGrowthOfRational(q)}} : TRUE

\* The enclosure of no number: the value a raised exception leaves unassigned.
NoEnclosure == <<1, 0>>

\* monthly_investment * ((compounded - 1) / real_return_rate) * factor, for
\* enclosures compounded and factor at GrowthScale and a result at AmountScale.
FxAnnuityDue(monthly_investment, real_return_rate, compounded, factor) ==
    LET annuity == <<ScaleFloor(compounded[1] - GrowthScale,
                                real_return_rate[2], real_return_rate[1]),
                     ScaleCeil(compounded[2] - GrowthScale,
                               real_return_rate[2], real_return_rate[1])>>
    IN  <<FxMulFloorAt(FxMulFloorAt(monthly_investment * AmountScale, annuity[1], 2),
                       factor[1], 2),
          FxMulCeilAt(FxMulCeilAt(monthly_investment * AmountScale, annuity[2], 2),
                      factor[2], 2)>>

\* SIP tab, line 269 (real_return_rate >= 0):
\* monthly_investment * (((1 + real_return_rate) ** (time_years * 12) - 1)
\*                       / real_return_rate) * (1 + real_return_rate)
SipInflationAdjFinal(monthly_investment, real_return_rate, time_years) ==
    IF real_return_rate[1] = 0 THEN NoEnclosure
    ELSE CHOOSE inflation_adj_final \in
             {FxAnnuityDue(monthly_investment, real_return_rate, compounded, factor) :
                  compounded \in {FxPow(RAdd(One, real_return_rate),
                                        time_years * MonthsPerYear)},
                  factor \in {FxGrowthOfRational(RAdd(One, real_return_rate))}} : TRUE

\* What the SIP tab shows for these inputs, given the simulated series and
\* the real return rate (lines 254-269).
SipSummaryOf(monthly_investment, annual_return_rate, time_years, inflation_rate, results, real_return_rate) ==
    LET total_invested == monthly_investment * time_years * MonthsPerYear * AmountScale
        final_value == results.Investment_Value[Len(results.Investment_Value)]
    IN  [submitted |-> TRUE,
         monthly_investment |-> monthly_investment,
         annual_return_rate |-> annual_return_rate,
         time_years |-> time_years,
         inflation_rate |-> inflation_rate,
         sip_results |-> results,
         total_invested |-> total_invested,
         final_value |-> final_value,
         wealth_gained |-> <<final_value[1] - total_invested,
                             final_value[2] - total_invested>>,
         real_return_rate |-> real_return_rate,
         inflation_adj_final |->
             SipInflationAdjFinal(monthly_investment, real_return_rate, time_years),
         raised |-> IF real_return_rate[1] = 0 THEN "ZeroDivisionError" ELSE "none"]

\* SIP tab, the handler of "Calculate SIP Returns" (lines 251-269).
SipSummary(monthly_investment, annual_return_rate, time_years, inflation_rate) ==
    CHOOSE summary \in
        {SipSummaryOf(monthly_investment, annual_return_rate, time_years,
                      inflation_rate, results, real_return_rate) :
             results \in {FxCalculateSipReturns(monthly_investment, annual_return_rate,
                                                time_years)},
             real_return_rate \in {RealReturnRate(annual_return_rate, inflation_rate)}} :
        TRUE

\* Lump-sum tab, line 425: initial_investment * ((1 + real_return_rate) ** time_years)
LumpsumInflationAdjFinal(initial_investment, real_return_rate, time_years) ==
    RMul(initial_investment, RPow(RAdd(One, real_return_rate), time_years))

\* Lump-sum tab, the handler of "Calculate Lumpsum Returns" (lines 407-425).
LumpsumSummary(investment_amount, annual_return_rate, time_years, inflation_rate) ==
    LET results == calculate_lumpsum_returns(R(investment_amount), annual_return_rate, time_years)
        initial_investment == R(investment_amount)
        final_value == results.Investment_Value[Len(results.Investment_Value)]
        real_return_rate == RealReturnRate(annual_return_rate, inflation_rate)
    IN  [submitted |-> TRUE,
         investment_amount |-> investment_amount,
         annual_return_rate |-> annual_return_rate,
         time_years |-> time_years,
         inflation_rate |-> inflation_rate,
         lumpsum_results |-> results,
         final_value |-> final_value,
         wealth_gained |-> RSub(final_value, initial_investment),
         real_return_rate |-> real_return_rate,
         inflation_adj_final |->
             LumpsumInflationAdjFinal(initial_investment, real_return_rate, time_years)]

(***************************************************************************)
(* Inputs.  Amounts are whole currency units; rates are percentages.  The  *)
(* annual return rates are those whose monthly growth factor is one of     *)
(* Factors, so that the twelfth root of 1 + r/100 is rational.             *)
(***************************************************************************)
Contributions == {0, 60, 100}
Principals == {60, 100}
Targets == {60, 100}
StepUpRates == {0, 10, 20}
Factors == {<<1, 1>>, <<4, 3>>, <<3, 2>>, <<2, 1>>, <<3, 1>>}

\* The annual rate (in %) whose monthly growth factor is g.
AnnualRateOf(g) == RMul(RSub(RPow(g, MonthsPerYear), One), R(Percent))
ReturnRates == {AnnualRateOf(g) : g \in Factors}

\* lim >= b^n, decided by repeated division.
RECURSIVE PowFits(_, _, _)
PowFits(lim, b, n) ==
    IF n = 0 THEN lim >= 1 ELSE PowFits(lim \div b, b, n - 1)

\* Every value of a series over time_years at this rate stays inside
\* ValueLimit for amounts up to amount.
InRange(amount, annual_return_rate, time_years) ==
    PowFits(ValueLimit \div amount,
            RAdd(One, MonthlyRate(annual_return_rate))[1],
            TotalMonths(time_years))

MaxAmount == 100

(***************************************************************************)
(* Budget alerts: notification_service.py.  An expense is a record of its  *)
(* category, its amount and whether its date is in the current month.      *)
(***************************************************************************)
\* monthly_expenses.groupby('category')['amount'].sum().get(category, 0)
RECURSIVE Spent(_, _)
Spent(expenses, category) ==
    IF expenses = <<>>
    THEN 0
    ELSE Spent(Tail(expenses), category)
             + (IF Head(expenses).this_month /\ Head(expenses).category = category
                THEN Head(expenses).amount
                ELSE 0)

\* Lines 203-217: the categories check_budget_alerts sends an alert for.
\* percentage = (spent / budget) * 100 >= alert_threshold, on whole amounts.
AlertDue(budgets, expenses, alert_threshold, alerted, category) ==
    /\ budgets[category] > 0
    /\ Spent(expenses, category) * 100 >= alert_threshold * budgets[category]
    /\ category \notin alerted

\* Lines 172-182: the early returns.
AlertsSkipped(notifications_enabled, phone_number, budgets, expenses) ==
    \/ ~notifications_enabled
    \/ phone_number = ""
    \/ DOMAIN budgets = {}
    \/ expenses = <<>>

\* The sends of one call of check_budget_alerts (lines 170-232).
AlertsAttempted(notifications_enabled, phone_number, budgets, expenses, alert_threshold, alerted) ==
    IF AlertsSkipped(notifications_enabled, phone_number, budgets, expenses)
    THEN {}
    ELSE {category \in DOMAIN budgets :
              AlertDue(budgets, expenses, alert_threshold, alerted, category)}

AlertedAfter_Attempted(alerted, attempted, delivered) == alerted \cup attempted

\* Lines 223-226: st.session_state[alert_key] = True for a send that
\* succeeded.
AlertedAfter(alerted, attempted, delivered) == alerted \cup delivered

(***************************************************************************)
(* State: the inputs of the calculator forms and the results of the calls. *)
(***************************************************************************)
VARIABLES
    monthly_investment,   \* SIP / step-up: (initial) monthly contribution
    investment_amount,    \* lump sum: principal
    target_amount,        \* goal: target
    annual_return_rate,   \* annual return rate, in %
    annual_step_up_rate,  \* step-up rate, in %
    time_years,           \* duration in whole years
    called,               \* the calls made so far
    sip_results,          \* calculate_sip_returns(monthly_investment, ...)
    lumpsum_results,      \* calculate_lumpsum_returns(investment_amount, ...)
    monthly_sip,          \* calculate_goal_based_sip(target_amount, ...)
    goal_sip_results,     \* calculate_sip_returns(monthly_sip, ...)
    stepup_results,       \* calculate_step_up_sip(monthly_investment, ...)
    sip_summary,          \* SIP tab: what the last submitted form computed
    lumpsum_summary,      \* lump-sum tab: what the last submitted form computed
    calls,                \* per caller: the call it makes and what it got back
    frames,               \* the local variables of the calls in progress
    session_state,        \* st.session_state: the keys of gamification.py
    today,                \* datetime.now().date(), as a day number
    shown,                \* what display_gamification_elements last showed
    last_call,            \* the gamification function called last
    history,              \* the arguments and days of the calls so far
    notifications_enabled, \* st.session_state.notifications_enabled
    phone_number,         \* st.session_state.phone_number
    alert_threshold,      \* st.session_state.alert_threshold, in %
    budgets,              \* st.session_state.budgets: category -> budget
    expenses,             \* st.session_state.expenses, row by row
    alerted,              \* categories whose alerted_... key of the month is set
    sms_sent,             \* per category: the alerts sent successfully so far
    last_check            \* the sends of the last check_budget_alerts call

inputs == <<monthly_investment, investment_amount, target_amount,
            annual_return_rate, annual_step_up_rate, time_years>>
engine == <<inputs, called, sip_results, lumpsum_results, monthly_sip,
            goal_sip_results, stepup_results>>
tabs == <<sip_summary, lumpsum_summary>>
app == <<calls, frames, session_state>>
game == <<today, shown, last_call, history>>
alerts == <<notifications_enabled, phone_number, alert_threshold, budgets,
            expenses, alerted, sms_sent, last_check>>
vars == <<engine, tabs, app, game, alerts>>

NoSeries == [Month |-> <<>>, Total_Investment |-> <<>>, Investment_Value |-> <<>>]
NoLumpsum == [Year |-> <<>>, Investment_Value |-> <<>>]
NoStepUp == [Month |-> <<>>, Monthly_SIP |-> <<>>, Total_Investment |-> <<>>,
             Investment_Value |-> <<>>]

\* A tab whose form has not been submitted.
NoSipSummary ==
    [submitted |-> FALSE, monthly_investment |-> 0, annual_return_rate |-> Zero,
     time_years |-> 0, inflation_rate |-> Zero,
     sip_results |-> [Month |-> <<>>, Total_Investment |-> <<>>,
                      Investment_Value |-> <<>>, monthly_rate |-> <<0, 0>>],
     total_invested |-> 0, final_value |-> <<0, 0>>, wealth_gained |-> <<0, 0>>,
     real_return_rate |-> Zero, inflation_adj_final |-> NoEnclosure,
     raised |-> "none"]
NoLumpsumSummary ==
    [submitted |-> FALSE, investment_amount |-> 0, annual_return_rate |-> Zero,
     time_years |-> 0, inflation_rate |-> Zero, lumpsum_results |-> NoLumpsum,
     final_value |-> Zero, wealth_gained |-> Zero, real_return_rate |-> Zero,
     inflation_adj_final |-> Zero]

\* The callers, none of them in a call, and a fresh session.
Callers == {1, 2}
NoCall ==
    [pc |-> "idle", fn |-> "none", amount |-> Zero, annual_return_rate |-> Zero,
     time_years |-> 0, annual_step_up_rate |-> Zero, points_at_call |-> 0,
     result |-> NoResult]
NoCalls ==
    /\ calls = [p \in Callers |-> NoCall]
    /\ frames = [p \in Callers |-> NoFrame]
    /\ session_state = NewSession

\* Day 0, nothing displayed, no gamification function called.
NoHistory == [calculators |-> {}, formats |-> {}, days |-> {}]
NoGame ==
    /\ today = 0
    /\ shown = NothingShown
    /\ last_call = [fn |-> "none", arg |-> "", day |-> 0]
    /\ history = NoHistory

\* show_notification_settings, lines 66-73, and app.py, lines 155-160: no
\* notifications, no budget, no expense, no alert sent.
Categories == {"Food", "Rent"}
NoAlerts ==
    /\ notifications_enabled = FALSE
    /\ phone_number = ""
    /\ alert_threshold = 80
    /\ budgets = [category \in {} |-> 0]
    /\ expenses = <<>>
    /\ alerted = {}
    /\ sms_sent = [category \in Categories |-> 0]
    /\ last_check = [attempted |-> {}, sent |-> {}]

Init ==
    /\ monthly_investment \in {R(c) : c \in Contributions}
    /\ investment_amount \in {R(p) : p \in Principals}
    /\ target_amount \in {R(t) : t \in Targets}
    /\ annual_return_rate \in ReturnRates
    /\ annual_step_up_rate \in {R(s) : s \in StepUpRates}
    /\ time_years \in 1..MaxYears
    /\ InRange(MaxAmount, annual_return_rate, time_years)
    /\ called = {}
    /\ sip_results = NoSeries
    /\ lumpsum_results = NoLumpsum
    /\ monthly_sip = Zero
    /\ goal_sip_results = NoSeries
    /\ stepup_results = NoStepUp
    /\ sip_summary = NoSipSummary
    /\ lumpsum_summary = NoLumpsumSummary
    /\ NoCalls
    /\ NoGame
    /\ NoAlerts

\* SIP tab: sip_results = calculate_sip_returns(...)
CallSip ==
    /\ "sip" \notin called
    /\ sip_results' = calculate_sip_returns(monthly_investment,
                                            annual_return_rate, time_years)
    /\ called' = called \cup {"sip"}
    /\ UNCHANGED <<tabs, app, game, alerts, inputs, lumpsum_results, monthly_sip, goal_sip_results,
                   stepup_results>>

\* Lump-sum tab: lumpsum_results = calculate_lumpsum_returns(...)
CallLumpsum ==
    /\ "lumpsum" \notin called
    /\ lumpsum_results' = calculate_lumpsum_returns(investment_amount,
                                                    annual_return_rate, time_years)
    /\ called' = called \cup {"lumpsum"}
    /\ UNCHANGED <<tabs, app, game, alerts, inputs, sip_results, monthly_sip, goal_sip_results,
                   stepup_results>>

\* Goal tab: monthly_sip = calculate_goal_based_sip(...)
CallGoal ==
    /\ "goal" \notin called
    /\ monthly_sip' = calculate_goal_based_sip(target_amount,
                                               annual_return_rate, time_years)
    /\ called' = called \cup {"goal"}
    /\ UNCHANGED <<tabs, app, game, alerts, inputs, sip_results, lumpsum_results, goal_sip_results,
                   stepup_results>>

\* Goal tab, after the solver returned:
\* sip_results = calculate_sip_returns(monthly_sip, annual_return_rate, time_years)
CallGoalSip ==
    /\ "goal" \in called
    /\ "goal_sip" \notin called
    /\ IsNumber(monthly_sip)
    /\ goal_sip_results' = calculate_sip_returns(monthly_sip,
                                                 annual_return_rate, time_years)
    /\ called' = called \cup {"goal_sip"}
    /\ UNCHANGED <<tabs, app, game, alerts, inputs, sip_results, lumpsum_results, monthly_sip,
                   stepup_results>>

\* Step-up tab: stepup_results = calculate_step_up_sip(...)
CallStepUp ==
    /\ "stepup" \notin called
    /\ stepup_results' = calculate_step_up_sip(monthly_investment,
                                               annual_step_up_rate,
                                               annual_return_rate, time_years)
    /\ called' = called \cup {"stepup"}
    /\ UNCHANGED <<tabs, app, game, alerts, inputs, sip_results, lumpsum_results, monthly_sip,
                   goal_sip_results>>

Next ==
    \/ CallSip
    \/ CallLumpsum
    \/ CallGoal
    \/ CallGoalSip
    \/ CallStepUp

Spec == Init /\ [][Next]_vars

(***************************************************************************)
(* The calculator forms.  Each form is submitted with values its widgets   *)
(* accept; the engine-level variables above stay as they are.              *)
(***************************************************************************)
MaxSipYears == 2
MaxLumpsumYears == 5
SipFormAmounts == {500, 1000}
LumpsumFormAmounts == {1000, 100000}
SipFormRates == {R(6), R(12)}
LumpsumFormRates == {R(6), R(10), R(12)}
InflationRates == {R(0), R(6)}

\* amount * factor ** n stays inside ValueLimit, numerator and denominator,
\* for a whole amount and a rational factor.
CompoundFits(amount, factor, n) ==
    /\ PowFits(ValueLimit, factor[1], n)
    /\ PowFits(ValueLimit, factor[2], n)
    /\ PowFits(ValueLimit \div (amount \div GCD(amount, factor[2]^n)), factor[1], n)

\* The lump-sum summary of these inputs stays inside ValueLimit.
LumpsumInRange(p, r, y, i) ==
    /\ CompoundFits(p, RAdd(One, RDiv(r, R(Percent))), y)
    /\ CompoundFits(p, RAdd(One, RealReturnRate(r, i)), y)

TabInit ==
    /\ monthly_investment = Zero
    /\ investment_amount = Zero
    /\ target_amount = Zero
    /\ annual_return_rate = Zero
    /\ annual_step_up_rate = Zero
    /\ time_years = 1
    /\ called = {}
    /\ sip_results = NoSeries
    /\ lumpsum_results = NoLumpsum
    /\ monthly_sip = Zero
    /\ goal_sip_results = NoSeries
    /\ stepup_results = NoStepUp
    /\ sip_summary = NoSipSummary
    /\ lumpsum_summary = NoLumpsumSummary
    /\ NoCalls
    /\ NoGame
    /\ NoAlerts

\* SIP tab: "Calculate SIP Returns" (lines 249-269).
SubmitSipForm ==
    /\ ~sip_summary.submitted
    /\ \E c \in SipFormAmounts, r \in SipFormRates, y \in 1..MaxSipYears,
          i \in InflationRates :
            sip_summary' = SipSummary(c, r, y, i)
    /\ UNCHANGED <<engine, app, game, alerts, lumpsum_summary>>

\* Lump-sum tab: "Calculate Lumpsum Returns" (lines 405-425).
SubmitLumpsumForm ==
    /\ ~lumpsum_summary.submitted
    /\ \E p \in LumpsumFormAmounts, r \in LumpsumFormRates,
          y \in 1..MaxLumpsumYears, i \in InflationRates :
            /\ LumpsumInRange(p, r, y, i)
            /\ lumpsum_summary' = LumpsumSummary(p, r, y, i)
    /\ UNCHANGED <<engine, app, game, alerts, sip_summary>>

TabNext ==
    \/ SubmitSipForm
    \/ SubmitLumpsumForm

TabSpec == TabInit /\ [][TabNext]_vars

(***************************************************************************)
(* The Finance Game page.  The session has its keys (initialize_           *)
(* gamification ran on a page load); the functions of gamification.py are  *)
(* then called one after another, on one day.                              *)
(***************************************************************************)
BadgeNames == {"Investment Planner"}
UnderBudgetCounts == {0, 3}

GameInit == TabInit

\* The session has been through check_streak, and the messages of the calls
\* so far have been displayed.
Initialized ==
    /\ session_state.last_active # NoDate
    /\ session_state.point_messages = <<>>

\* initialize_gamification() at a page load (app.py, line 459).
InitializeGamification ==
    /\ session_state' = initialize_gamification(session_state, today)
    /\ last_call' = [fn |-> "initialize_gamification", arg |-> "", day |-> today]
    /\ history' = [history EXCEPT !.days = @ \cup {today}]
    /\ UNCHANGED <<engine, tabs, alerts, calls, frames, today, shown>>

\* display_gamification_elements(): initializes, shows and clears the
\* messages, shows the progress to the next level.
DisplayGamificationElements ==
    /\ \E session \in {initialize_gamification(session_state, today)} :
           /\ session_state' = [session EXCEPT !.point_messages = <<>>]
           /\ shown' = ProgressShown(session)
    /\ last_call' = [fn |-> "display_gamification_elements", arg |-> "",
                     day |-> today]
    /\ history' = [history EXCEPT !.days = @ \cup {today}]
    /\ UNCHANGED <<engine, tabs, alerts, calls, frames, today>>

\* award_badge(badge_name, description)
AwardBadge ==
    /\ Initialized
    /\ \E badge_name \in BadgeNames :
           /\ session_state' = award_badge(session_state, badge_name)
           /\ last_call' = [fn |-> "award_badge", arg |-> badge_name,
                            day |-> today]
    /\ UNCHANGED <<engine, tabs, alerts, calls, frames, today, shown, history>>

\* complete_challenge(challenge), called as the module calls it: for a
\* challenge whose progress is at its maximum.
CompleteChallenge ==
    /\ Initialized
    /\ \E id \in DOMAIN session_state.challenges :
           /\ session_state.challenges[id].progress
                  >= session_state.challenges[id].progress_max
           /\ session_state' = complete_challenge(session_state, id)
           /\ last_call' = [fn |-> "complete_challenge", arg |-> ToString(id),
                            day |-> today]
    /\ UNCHANGED <<engine, tabs, alerts, calls, frames, today, shown, history>>

\* check_challenges_for_investing(calculator_used)
CheckChallengesForInvesting ==
    /\ Initialized
    /\ \E calculator_used \in Calculators :
           /\ session_state' =
                  check_challenges_for_investing(session_state, calculator_used)
           /\ last_call' = [fn |-> "check_challenges_for_investing",
                            arg |-> calculator_used, day |-> today]
           /\ history' = [history EXCEPT !.calculators = @ \cup {calculator_used}]
    /\ UNCHANGED <<engine, tabs, alerts, calls, frames, today, shown>>

\* check_challenges_for_export(export_format)
CheckChallengesForExport ==
    /\ Initialized
    /\ \E export_format \in ExportFormats :
           /\ session_state' =
                  check_challenges_for_export(session_state, export_format)
           /\ last_call' = [fn |-> "check_challenges_for_export",
                            arg |-> export_format, day |-> today]
           /\ history' = [history EXCEPT !.formats = @ \cup {export_format}]
    /\ UNCHANGED <<engine, tabs, alerts, calls, frames, today, shown>>

\* check_challenges_for_budget_performance(under_budget_categories)
\* (app.py, line 486)
CheckChallengesForBudgetPerformance ==
    /\ Initialized
    /\ \E under_budget \in UnderBudgetCounts :
           /\ session_state' =
                  check_challenges_for_budget_performance(session_state,
                                                          under_budget)
           /\ last_call' = [fn |-> "check_challenges_for_budget_performance",
                            arg |-> ToString(under_budget), day |-> today]
    /\ UNCHANGED <<engine, tabs, alerts, calls, frames, today, shown, history>>

GameNext ==
    \/ InitializeGamification
    \/ DisplayGamificationElements
    \/ AwardBadge
    \/ CompleteChallenge
    \/ CheckChallengesForInvesting
    \/ CheckChallengesForExport
    \/ CheckChallengesForBudgetPerformance

GameSpec == GameInit /\ [][GameNext]_vars

(***************************************************************************)
(* The daily streak.  Days pass; the page is loaded and the gamification   *)
(* elements are displayed on some of them.                                 *)
(***************************************************************************)
MaxDay == 8

StreakInit == TabInit

\* datetime.now().date() is the next day.
NextDay ==
    /\ today < MaxDay
    /\ today' = today + 1
    /\ UNCHANGED <<engine, tabs, app, alerts, shown, last_call, history>>

StreakNext ==
    \/ NextDay
    \/ InitializeGamification
    \/ DisplayGamificationElements

StreakSpec == StreakInit /\ [][StreakNext]_vars

(***************************************************************************)
(* Budget alerts within one month: the settings, the budgets and the       *)
(* expenses change, and check_budget_alerts is called in between.  A send  *)
(* succeeds or fails (send_budget_alert, lines 5-58).                      *)
(***************************************************************************)
MaxExpenses == 3
PhoneNumbers == {"", "+911234567890"}
AlertThresholds == {80, 100}
BudgetAmounts == {0, 50}
ExpenseAmounts == {40}

AlertInit == TabInit

\* The toggle of show_notification_settings (lines 99-110).
ToggleNotifications ==
    /\ notifications_enabled' = ~notifications_enabled
    /\ UNCHANGED <<engine, tabs, app, game, phone_number, alert_threshold,
                   budgets, expenses, alerted, sms_sent, last_check>>

\* The phone number input (lines 113-124).
SetPhoneNumber ==
    /\ notifications_enabled
    /\ \E number \in PhoneNumbers :
           /\ number # phone_number
           /\ phone_number' = number
    /\ UNCHANGED <<engine, tabs, app, game, notifications_enabled,
                   alert_threshold, budgets, expenses, alerted, sms_sent,
                   last_check>>

\* The threshold slider (lines 128-138).
SetAlertThreshold ==
    /\ notifications_enabled
    /\ \E threshold \in AlertThresholds :
           /\ threshold # alert_threshold
           /\ alert_threshold' = threshold
    /\ UNCHANGED <<engine, tabs, app, game, notifications_enabled, phone_number,
                   budgets, expenses, alerted, sms_sent, last_check>>

\* The budget form (budget_manager.py, lines 53-68): a budget for every
\* category.
SaveBudgets ==
    /\ \E saved \in [Categories -> BudgetAmounts] :
           /\ DOMAIN budgets # {} => saved # budgets
           /\ budgets' = saved
    /\ UNCHANGED <<engine, tabs, app, game, notifications_enabled, phone_number,
                   alert_threshold, expenses, alerted, sms_sent, last_check>>

\* The expense form (expense_tracker.py, lines 38-50).
AddExpense ==
    /\ Len(expenses) < MaxExpenses
    /\ \E category \in Categories, amount \in ExpenseAmounts,
          this_month \in BOOLEAN :
           expenses' = Append(expenses,
                              [category |-> category, amount |-> amount,
                               this_month |-> this_month])
    /\ UNCHANGED <<engine, tabs, app, game, notifications_enabled, phone_number,
                   alert_threshold, budgets, alerted, sms_sent, last_check>>

\* check_budget_alerts() (lines 170-232): each send succeeds or fails.
CheckBudgetAlerts ==
    /\ \E attempted \in {AlertsAttempted(notifications_enabled, phone_number,
                                         budgets, expenses, alert_threshold,
                                         alerted)} :
       \E delivered \in SUBSET attempted :
           /\ alerted' = AlertedAfter(alerted, attempted, delivered)
           /\ sms_sent' = [category \in Categories |->
                              IF category \in delivered
                              THEN sms_sent[category] + 1
                              ELSE sms_sent[category]]
           /\ last_check' = [attempted |-> attempted, sent |-> delivered]
    /\ UNCHANGED <<engine, tabs, app, game, notifications_enabled, phone_number,
                   alert_threshold, budgets, expenses>>

AlertNext ==
    \/ ToggleNotifications
    \/ SetPhoneNumber
    \/ SetAlertThreshold
    \/ SaveBudgets
    \/ AddExpense
    \/ CheckBudgetAlerts

AlertSpec == AlertInit /\ [][AlertNext]_vars

(***************************************************************************)
(* Concurrent callers.  Each caller makes one call of an engine function;  *)
(* the steps of the calls interleave with one another and with the         *)
(* gamification code that changes the session state.                       *)
(***************************************************************************)
MaxPoints == 100
PointAwards == {50}
CallAmounts == {R(100)}
CallRates == {AnnualRateOf(<<1, 1>>), AnnualRateOf(<<2, 1>>)}
CallYears == {1}
CallStepUpRates == {R(10)}

ConcurrentInit == TabInit

\* Caller p calls fn: the statements before the loop.
Call(p) ==
    /\ calls[p].pc = "idle"
    /\ \E fn \in EngineFunctions, amount \in CallAmounts, r \in CallRates,
          y \in CallYears, s \in CallStepUpRates :
            /\ calls' = [calls EXCEPT ![p] =
                            [pc |-> "running", fn |-> fn, amount |-> amount,
                             annual_return_rate |-> r, time_years |-> y,
                             annual_step_up_rate |-> s,
                             points_at_call |-> session_state.points,
                             result |-> NoResult]]
            /\ frames' = [frames EXCEPT ![FrameOf(p)] =
                             EnterCall(fn, amount, r, y, s, session_state)]
    /\ UNCHANGED <<engine, tabs, game, alerts, session_state>>

\* The call of caller p runs one iteration of its loop.
LoopStep(p) ==
    /\ calls[p].pc = "running"
    /\ frames[FrameOf(p)].i < frames[FrameOf(p)].iterations
    /\ frames' = [frames EXCEPT ![FrameOf(p)] = LoopBody(@)]
    /\ UNCHANGED <<engine, tabs, game, alerts, calls, session_state>>

\* The call of caller p returns; its locals are gone.
Return(p) ==
    /\ calls[p].pc = "running"
    /\ frames[FrameOf(p)].i >= frames[FrameOf(p)].iterations
    /\ calls' = [calls EXCEPT ![p].pc = "returned",
                              ![p].result = ReturnValue(frames[FrameOf(p)])]
    /\ frames' = [frames EXCEPT ![FrameOf(p)] = NoFrame]
    /\ UNCHANGED <<engine, tabs, game, alerts, session_state>>

\* gamification.add_points runs in between.
AddPoints ==
    /\ \E points \in PointAwards :
           /\ session_state.points + points <= MaxPoints
           /\ session_state' = add_points(session_state, points)
    /\ UNCHANGED <<engine, tabs, game, alerts, calls, frames>>

ConcurrentNext ==
    \/ \E p \in Callers : Call(p)
    \/ \E p \in Callers : LoopStep(p)
    \/ \E p \in Callers : Return(p)
    \/ AddPoints

ConcurrentSpec == ConcurrentInit /\ [][ConcurrentNext]_vars

(***************************************************************************)
(* Properties of the engine.                                               *)
(***************************************************************************)

\* The monthly growth factor 1 + monthly_rate of the current annual rate,
\* characterised by its twelfth power: g^12 = 1 + r/100.
GrowthFactor ==
    CHOOSE g \in Factors :
        RPow(g, MonthsPerYear) = RAdd(One, RDiv(annual_return_rate, R(Percent)))

\* The annual growth factor 1 + r/100.
AnnualFactor == RAdd(One, RDiv(annual_return_rate, R(Percent)))

\* The annual step-up factor 1 + s/100.
StepUpFactor == RAdd(One, RDiv(annual_step_up_rate, R(Percent)))

\* A series follows the ordinary-annuity recurrence for the contributions a.
FollowsRecurrence(series, a) ==
    /\ Len(series.Total_Investment) >= 1
    /\ series.Total_Investment[1] = a[1]
    /\ series.Investment_Value[1] = a[1]
    /\ \A n \in 2..Len(series.Total_Investment) :
          /\ series.Total_Investment[n] =
                 RAdd(series.Total_Investment[n - 1], a[n])
          /\ series.Investment_Value[n] =
                 RAdd(RMul(series.Investment_Value[n - 1], GrowthFactor), a[n])

\* C1: calculate_sip_returns follows the ordinary-annuity recurrence: at
\* period 1 Total_Investment = Investment_Value = c, and for every period
\* n > 1, Total_Investment[n] = Total_Investment[n-1] + c and
\* Investment_Value[n] = Investment_Value[n-1] * (1 + monthly_rate) + c.
C1_SipRecurrence ==
    "sip" \in called =>
        FollowsRecurrence(sip_results,
            [n \in 1..Len(sip_results.Total_Investment) |-> monthly_investment])

C1_Witness ==
    /\ "sip" \in called
    /\ time_years = 2
    /\ RLess(One, GrowthFactor)
    /\ RLess(Zero, monthly_investment)
    /\ Len(sip_results.Investment_Value) = 24

\* C2: for rate > 0, running calculate_sip_returns with the contribution
\* returned by calculate_goal_based_sip(T, r, y), at the same r and y, yields
\* a final Investment_Value within relative tolerance 1e-6 of the target T.
C2_RoundTrip ==
    ("goal_sip" \in called /\ RLess(Zero, annual_return_rate)) =>
        LET final == goal_sip_results.Investment_Value[
                         Len(goal_sip_results.Investment_Value)]
        IN  RLeq(RAbs(RSub(final, target_amount)),
                 RDiv(target_amount, R(1000000)))

\* C3: when the annual rate is 0, calculate_goal_based_sip evaluates the 0/0
\* divisor to n = 12*y and returns target/n instead of failing with a
\* division by zero.
C3_ZeroRateLimit ==
    ("goal" \in called /\ annual_return_rate = Zero) =>
        /\ monthly_sip # ZeroDivisionError
        /\ monthly_sip = RDiv(target_amount, R(MonthsPerYear * time_years))

\* C4: for rate > 0 the value c returned by calculate_goal_based_sip(T, r, y)
\* inverts the annuity-due future value: with n = 12*y,
\* c * (1 + monthly_rate) * ((1 + monthly_rate)^n - 1) / monthly_rate = T.
C4_GoalInvertsAnnuityDue ==
    ("goal" \in called /\ RLess(Zero, annual_return_rate)) =>
        /\ IsNumber(monthly_sip)
        /\ RMul(RMul(monthly_sip, GrowthFactor),
                RDiv(RSub(RPow(GrowthFactor, MonthsPerYear * time_years), One),
                     RSub(GrowthFactor, One))) = target_amount

C4_Witness ==
    /\ "goal" \in called
    /\ RLess(Zero, annual_return_rate)
    /\ time_years = 2
    /\ IsNumber(monthly_sip)
    /\ RLess(Zero, monthly_sip)

\* C5: for every duration y >= 1, calculate_sip_returns returns exactly 12*y
\* entries whose Month index runs 1, 2, ..., 12*y in order.
C5_SipLength ==
    "sip" \in called =>
        /\ Len(sip_results.Month) = 12 * time_years
        /\ Len(sip_results.Total_Investment) = 12 * time_years
        /\ Len(sip_results.Investment_Value) = 12 * time_years
        /\ \A i \in 1..Len(sip_results.Month) : sip_results.Month[i] = i

C5_Witness ==
    /\ "sip" \in called
    /\ time_years = 2
    /\ sip_results.Month[24] = 24

\* C6: calculate_lumpsum_returns returns exactly y+1 entries for Year = 0..y,
\* with value[0] = p and value[k+1] = value[k] * (1 + r/100), that is
\* value[k] = p * (1 + r/100)^k: annual compounding only.
C6_LumpsumSeries ==
    "lumpsum" \in called =>
        /\ Len(lumpsum_results.Year) = time_years + 1
        /\ Len(lumpsum_results.Investment_Value) = time_years + 1
        /\ \A i \in 1..(time_years + 1) : lumpsum_results.Year[i] = i - 1
        /\ lumpsum_results.Investment_Value[1] = investment_amount
        /\ \A i \in 1..time_years :
              lumpsum_results.Investment_Value[i + 1] =
                  RMul(lumpsum_results.Investment_Value[i], AnnualFactor)

C6_Witness ==
    /\ "lumpsum" \in called
    /\ time_years = 2
    /\ RLess(Zero, annual_return_rate)
    /\ RLess(investment_amount, lumpsum_results.Investment_Value[3])

\* C7: in calculate_step_up_sip the contribution active in period p (1-based)
\* is c0 * (1 + s/100)^floor((p-1)/12): periods 1-12 use c0, the amount
\* changes only at periods 13, 25, ... and is constant within a 12-period block.
C7_StepUpContribution ==
    "stepup" \in called =>
        \A p \in 1..Len(stepup_results.Monthly_SIP) :
            stepup_results.Monthly_SIP[p] =
                RMul(monthly_investment, RPow(StepUpFactor, (p - 1) \div 12))

C7_Witness ==
    /\ "stepup" \in called
    /\ time_years = 2
    /\ RLess(Zero, annual_step_up_rate)
    /\ stepup_results.Monthly_SIP[12] = monthly_investment
    /\ RLess(monthly_investment, stepup_results.Monthly_SIP[13])

\* C8: calculate_step_up_sip returns exactly 12*y entries, each recording
\* Monthly_SIP, and follows the recurrence of the plain SIP with the period's
\* active contribution a[n] in place of c; both series equal c0 at period 1.
C8_StepUpRecurrence ==
    "stepup" \in called =>
        /\ Len(stepup_results.Month) = 12 * time_years
        /\ Len(stepup_results.Monthly_SIP) = 12 * time_years
        /\ Len(stepup_results.Total_Investment) = 12 * time_years
        /\ Len(stepup_results.Investment_Value) = 12 * time_years
        /\ stepup_results.Monthly_SIP[1] = monthly_investment
        /\ FollowsRecurrence(stepup_results, stepup_results.Monthly_SIP)

C8_Witness ==
    /\ "stepup" \in called
    /\ time_years = 2
    /\ RLess(Zero, annual_step_up_rate)
    /\ RLess(One, GrowthFactor)
    /\ RLess(Zero, monthly_investment)
    /\ Len(stepup_results.Investment_Value) = 24

\* C9: calculate_step_up_sip with step-up rate 0 produces the same Month,
\* Total_Investment and Investment_Value at every period as
\* calculate_sip_returns with the same contribution, rate and duration.
C9_ZeroStepUpIsSip ==
    ({"sip", "stepup"} \subseteq called /\ annual_step_up_rate = Zero) =>
        /\ stepup_results.Month = sip_results.Month
        /\ stepup_results.Total_Investment = sip_results.Total_Investment
        /\ stepup_results.Investment_Value = sip_results.Investment_Value

C9_Witness ==
    /\ {"sip", "stepup"} \subseteq called
    /\ annual_step_up_rate = Zero
    /\ time_years = 2
    /\ RLess(One, GrowthFactor)
    /\ RLess(Zero, monthly_investment)
    /\ Len(stepup_results.Investment_Value) = 24

\* Total_Investment never decreases, and increases strictly at every period
\* whose contribution a[n] is > 0.
Monotonic(total_investment, a) ==
    \A n \in 2..Len(total_investment) :
        /\ RLeq(total_investment[n - 1], total_investment[n])
        /\ RLess(Zero, a[n]) => RLess(total_investment[n - 1], total_investment[n])

\* C10: in both calculate_sip_returns and calculate_step_up_sip,
\* Total_Investment is non-decreasing from each period to the next, and
\* strictly increasing at every period whose contribution is > 0.
C10_MonotonicContribution ==
    /\ "sip" \in called =>
          Monotonic(sip_results.Total_Investment,
              [n \in 1..Len(sip_results.Total_Investment) |-> monthly_investment])
    /\ "goal_sip" \in called =>
          Monotonic(goal_sip_results.Total_Investment,
              [n \in 1..Len(goal_sip_results.Total_Investment) |-> monthly_sip])
    /\ "stepup" \in called =>
          Monotonic(stepup_results.Total_Investment, stepup_results.Monthly_SIP)

C10_Witness ==
    /\ {"sip", "stepup"} \subseteq called
    /\ time_years = 2
    /\ RLess(Zero, monthly_investment)
    /\ RLess(Zero, annual_step_up_rate)
    /\ RLess(sip_results.Total_Investment[23], sip_results.Total_Investment[24])
    /\ RLess(stepup_results.Total_Investment[23],
             stepup_results.Total_Investment[24])

\* C11: calculate_sip_returns with annual rate 0 yields
\* Investment_Value[n] = Total_Investment[n] = n*c at every period n, and no
\* entry is the outcome of a division by zero.
C11_ZeroRateLinear ==
    ("sip" \in called /\ annual_return_rate = Zero) =>
        \A n \in 1..(12 * time_years) :
            /\ IsNumber(sip_results.Investment_Value[n])
            /\ sip_results.Investment_Value[n] = sip_results.Total_Investment[n]
            /\ sip_results.Total_Investment[n] = RMul(R(n), monthly_investment)

C11_Witness ==
    /\ "sip" \in called
    /\ annual_return_rate = Zero
    /\ time_years = 2
    /\ RLess(Zero, monthly_investment)
    /\ sip_results.Investment_Value[24] = RMul(R(24), monthly_investment)

\* C12: calculate_lumpsum_returns with annual rate 0 yields
\* Investment_Value[k] = principal for every k in 0..y.
C12_ZeroRateLumpsum ==
    ("lumpsum" \in called /\ annual_return_rate = Zero) =>
        \A i \in 1..(time_years + 1) :
            lumpsum_results.Investment_Value[i] = investment_amount

C12_Witness ==
    /\ "lumpsum" \in called
    /\ annual_return_rate = Zero
    /\ time_years = 2
    /\ lumpsum_results.Investment_Value[3] = investment_amount

\* Investment_Value >= Total_Investment at every period, equal at period 1.
ValueCoversTotal(series) ==
    /\ series.Investment_Value[1] = series.Total_Investment[1]
    /\ \A n \in 1..Len(series.Total_Investment) :
          RLeq(series.Total_Investment[n], series.Investment_Value[n])

\* C20: for contribution > 0 and annual rate >= 0, at every period of
\* calculate_sip_returns and of calculate_step_up_sip (step-up >= 0),
\* Investment_Value >= Total_Investment, with equality at period 1.
C20_ValueAtLeastInvested ==
    RLess(Zero, monthly_investment) =>
        /\ "sip" \in called => ValueCoversTotal(sip_results)
        /\ "stepup" \in called => ValueCoversTotal(stepup_results)

C20_Witness ==
    /\ {"sip", "stepup"} \subseteq called
    /\ RLess(Zero, monthly_investment)
    /\ RLess(Zero, annual_step_up_rate)
    /\ time_years = 2
    /\ RLess(sip_results.Total_Investment[24], sip_results.Investment_Value[24])
    /\ RLess(stepup_results.Total_Investment[24],
             stepup_results.Investment_Value[24])


(***************************************************************************)
(* Properties of the calculator forms (TabSpec).                           *)
(***************************************************************************)

\* The enclosure x lies within tolerance of centre (same scale).
Within(x, centre, tolerance) ==
    /\ x[1] <= x[2]
    /\ centre - tolerance <= x[1]
    /\ x[2] <= centre + tolerance

\* The SIP form was submitted with monthly_investment = 1000,
\* annual_return_rate = 12, time_years = 1.
SipScenario ==
    /\ sip_summary.submitted
    /\ sip_summary.monthly_investment = 1000
    /\ sip_summary.annual_return_rate = R(12)
    /\ sip_summary.time_years = 1

\* C13 as stated: for calculate_sip_returns(1000, 12, 1) the monthly rate is
\* about 0.0094888, Total_Investment at period 12 is 12000 and
\* Investment_Value at period 12 is within 1 of 12747.  (Violated: the value
\* is 12646.50.)
C13_AsStated ==
    SipScenario =>
        /\ Within(sip_summary.sip_results.monthly_rate, 9488800, 50)
        /\ sip_summary.sip_results.Total_Investment[12] = 12000 * AmountScale
        /\ Within(sip_summary.sip_results.Investment_Value[12],
                  12747 * AmountScale, AmountScale)

\* C13, amended: for calculate_sip_returns(1000, 12, 1) the monthly rate is
\* 0.0094888 to seven decimals, Total_Investment at period 12 is 12000 and
\* Investment_Value at period 12 is within 1 of 12646.
C13_SipScenario ==
    SipScenario =>
        /\ Within(sip_summary.sip_results.monthly_rate, 9488800, 50)
        /\ sip_summary.sip_results.Total_Investment[12] = 12000 * AmountScale
        /\ Within(sip_summary.sip_results.Investment_Value[12],
                  12646 * AmountScale, AmountScale)

C13_Witness ==
    /\ SipScenario
    /\ Len(sip_summary.sip_results.Investment_Value) = 12
    /\ sip_summary.sip_results.Investment_Value[12][1] > 12000 * AmountScale


\* The lump-sum form was submitted with investment_amount = 100000,
\* annual_return_rate = 10, time_years = 5.
LumpsumScenario ==
    /\ lumpsum_summary.submitted
    /\ lumpsum_summary.investment_amount = 100000
    /\ lumpsum_summary.annual_return_rate = R(10)
    /\ lumpsum_summary.time_years = 5

\* C14: for calculate_lumpsum_returns(100000, 10, 5) the value in the row of
\* year 5 is 100000 * 1.1^5 (its ratio to 100000 is 11^5 / 10^5), which is
\* 161051 to within a half.
C14_LumpsumScenario ==
    LumpsumScenario =>
        LET df == lumpsum_summary.lumpsum_results
        IN  /\ df.Year[6] = 5
            /\ RDiv(df.Investment_Value[6], R(100000)) = <<11^5, 10^5>>
            /\ RLeq(RAbs(RSub(df.Investment_Value[6], R(161051))), <<1, 2>>)

C14_Witness ==
    /\ LumpsumScenario
    /\ Len(lumpsum_summary.lumpsum_results.Investment_Value) = 6
    /\ lumpsum_summary.final_value = lumpsum_summary.lumpsum_results.Investment_Value[6]


\* real is the real annual return of the nominal rate r and inflation i (in
\* %): (1 + real) * (1 + i/100) = 1 + r/100; for r = 12 and i = 6 it is
\* 0.0566 to four decimals; it is 0 exactly when r = i.
IsRealReturn(real, r, i) ==
    /\ RMul(RAdd(One, real), RAdd(One, RDiv(i, R(Percent)))) = RAdd(One, RDiv(r, R(Percent)))
    /\ (r = R(12) /\ i = R(6)) => RLeq(RAbs(RSub(real, <<566, 10000>>)), <<1, 20000>>)
    /\ real = Zero <=> r = i

\* C15: the real annual return computed in the SIP tab and in the lump-sum tab
\* is (1 + r/100) / (1 + inflation/100) - 1: about 0.0566 for r = 12 and
\* inflation = 6, and 0 exactly when r equals inflation.
C15_RealReturn ==
    /\ sip_summary.submitted =>
           IsRealReturn(sip_summary.real_return_rate, sip_summary.annual_return_rate,
                        sip_summary.inflation_rate)
    /\ lumpsum_summary.submitted =>
           IsRealReturn(lumpsum_summary.real_return_rate,
                        lumpsum_summary.annual_return_rate,
                        lumpsum_summary.inflation_rate)

C15_Witness ==
    /\ sip_summary.submitted
    /\ sip_summary.annual_return_rate = R(12)
    /\ sip_summary.inflation_rate = R(6)
    /\ sip_summary.real_return_rate = <<3, 53>>
    /\ lumpsum_summary.submitted
    /\ lumpsum_summary.annual_return_rate = lumpsum_summary.inflation_rate
    /\ lumpsum_summary.real_return_rate = Zero


\* Two enclosures can hold the same number.
Overlap(x, y) == x[1] <= y[2] /\ y[1] <= x[2]

\* The final Investment_Value of calculate_sip_returns run with the rate
\* real_return_rate * 100 in place of the nominal rate.
SipAtRealRate ==
    LET df == FxCalculateSipReturns(sip_summary.monthly_investment,
                                    RMul(sip_summary.real_return_rate, R(Percent)),
                                    sip_summary.time_years)
    IN  df.Investment_Value[Len(df.Investment_Value)]

\* The final value of calculate_lumpsum_returns run with the rate
\* real_return_rate * 100 in place of the nominal rate.
LumpsumAtRealRate ==
    LET df == calculate_lumpsum_returns(R(lumpsum_summary.investment_amount),
                                        RMul(lumpsum_summary.real_return_rate, R(Percent)),
                                        lumpsum_summary.time_years)
    IN  df.Investment_Value[Len(df.Investment_Value)]

\* C16 as stated: the inflation-adjusted final value of the SIP tab is the
\* final Investment_Value of calculate_sip_returns at the rate real_r * 100,
\* and that of the lump-sum tab is the final value of
\* calculate_lumpsum_returns at the rate real_r * 100.  (Violated by the SIP
\* tab: 17475 against 12308 for 1000 a month, 12% return, 6% inflation, one
\* year.)
C16_RealRateSubstitution ==
    /\ (sip_summary.submitted /\ sip_summary.raised = "none") =>
           Overlap(sip_summary.inflation_adj_final, SipAtRealRate)
    /\ lumpsum_summary.submitted =>
           lumpsum_summary.inflation_adj_final = LumpsumAtRealRate


\* C19 as stated: for every expected return and inflation rate the SIP form
\* accepts, computing the SIP summary's inflation-adjusted value never divides
\* by zero, also when the two rates are equal.  (Violated: with equal rates
\* real_return_rate is 0.0 and line 269 divides by it.)
C19_NoZeroDivision ==
    sip_summary.submitted => sip_summary.raised = "none"


(***************************************************************************)
(* Properties of concurrent callers (ConcurrentSpec).                      *)
(***************************************************************************)

\* Callers p and q called the same function with identical inputs.
SameCall(p, q) ==
    /\ calls[p].fn = calls[q].fn
    /\ calls[p].amount = calls[q].amount
    /\ calls[p].annual_return_rate = calls[q].annual_return_rate
    /\ calls[p].time_years = calls[q].time_years
    /\ calls[p].annual_step_up_rate = calls[q].annual_step_up_rate

\* C17: each of the four engine functions is deterministic: two calls with
\* identical inputs return identical results, whatever the state of the
\* application at either call and however their steps are ordered relative
\* to each other and to other activity.
C17_Deterministic ==
    \A p, q \in Callers :
        (calls[p].pc = "returned" /\ calls[q].pc = "returned" /\ SameCall(p, q))
            => calls[p].result = calls[q].result

\* Two calls with identical inputs, made at different points totals, have
\* both returned.
C17_Witness ==
    /\ calls[1].pc = "returned"
    /\ calls[2].pc = "returned"
    /\ SameCall(1, 2)
    /\ calls[1].points_at_call # calls[2].points_at_call
    /\ calls[1].result # NoResult

\* Every returned call got what it would get alone.
ResultAsAlone ==
    \A p \in Callers :
        calls[p].pc = "returned" =>
            calls[p].result = CalledAlone(calls[p].fn, calls[p].amount,
                                          calls[p].annual_return_rate,
                                          calls[p].time_years,
                                          calls[p].annual_step_up_rate)

\* A step of a call (entering, one iteration, returning).
EngineStep == calls' # calls \/ frames' # frames

\* C18: the engine functions neither read nor write shared mutable state:
\* under any interleaving of concurrent calls each caller gets the result it
\* would get alone, and no step of a call changes the session state.
C18_Isolation ==
    /\ []ResultAsAlone
    /\ [][EngineStep => session_state' = session_state]_vars

\* One call has returned while the other is in the middle of its loop, and
\* the session state has changed meanwhile.
C18_Witness ==
    /\ calls[1].pc = "returned"
    /\ calls[1].result # NoResult
    /\ calls[2].pc = "running"
    /\ frames[FrameOf(2)].i > 0
    /\ frames[FrameOf(2)].i < frames[FrameOf(2)].iterations
    /\ session_state.points > calls[1].points_at_call

(***************************************************************************)
(* Properties of AlertSpec.                                                *)
(***************************************************************************)
\* What a category has spent this month, as a percentage of its budget, is
\* at or above the threshold.
AtThreshold(category) ==
    /\ category \in DOMAIN budgets
    /\ budgets[category] > 0
    /\ Spent(expenses, category) * 100 >= alert_threshold * budgets[category]

\* C21: within one month at most one alert per category is sent successfully;
\* a category whose send failed is not marked as alerted, and the next call
\* attempts it again while it is still at or above the threshold (and alerts
\* can still be sent); no alert is attempted with notifications disabled, an
\* empty phone number, a budget <= 0 or spending below the threshold.
C21_OneAlertPerCategory ==
    /\ [](\A category \in Categories : sms_sent[category] <= 1)
    /\ [][CheckBudgetAlerts =>
            /\ \A category \in last_check'.attempted \ last_check'.sent :
                   category \notin alerted'
            /\ \A category \in last_check.attempted \ last_check.sent :
                   (notifications_enabled /\ phone_number # ""
                        /\ AtThreshold(category))
                       => category \in last_check'.attempted
            /\ \A category \in last_check'.attempted :
                   /\ notifications_enabled
                   /\ phone_number # ""
                   /\ AtThreshold(category)]_vars

\* A send failed, the next call sent the alert, and a later call attempted
\* nothing for the category although it is above the threshold.
C21_Witness ==
    /\ \E category \in Categories :
           /\ sms_sent[category] = 1
           /\ category \in alerted
           /\ AtThreshold(category)
           /\ category \notin last_check.attempted
    /\ \E category \in Categories :
           /\ category \in last_check.attempted \ last_check.sent
           /\ category \notin alerted

(***************************************************************************)
(* Properties of GameSpec.                                                 *)
(***************************************************************************)
\* The rewards of the challenges in a list of ids.
RECURSIVE RewardsOf(_)
RewardsOf(ids) ==
    IF ids = <<>> THEN 0 ELSE ChallengePoints[Head(ids)] + RewardsOf(Tail(ids))

\* The entries a step appends to a list.
Appended(before, after) == SubSeq(after, Len(before) + 1, Len(after))

\* The points of the first check_streak of the session.
FirstLogin(session) == IF session.last_active = NoDate THEN 0 ELSE 10

\* C22: no two badges have the same name; award_badge of a new name appends
\* the badge and adds 50 points, award_badge of a name the session has
\* changes neither badges nor points; and whatever the operation, the points
\* added beyond challenge rewards and streak points are 50 for each badge
\* appended.
C22_BadgesOnce ==
    /\ [](\A i, j \in 1..Len(session_state.badges) :
              session_state.badges[i] = session_state.badges[j] => i = j)
    /\ [][AwardBadge =>
            IF HasBadge(session_state, last_call'.arg)
            THEN /\ session_state'.badges = session_state.badges
                 /\ session_state'.points = session_state.points
            ELSE /\ session_state'.badges =
                        Append(session_state.badges, last_call'.arg)
                 /\ session_state'.points = session_state.points + 50]_vars
    /\ [][GameNext =>
            /\ SubSeq(session_state'.badges, 1, Len(session_state.badges))
                   = session_state.badges
            /\ session_state'.points - session_state.points
                   - RewardsOf(Appended(session_state.completed_challenges,
                                        session_state'.completed_challenges))
                   - (FirstLogin(session_state') - FirstLogin(session_state))
                 = 50 * (Len(session_state'.badges) - Len(session_state.badges))
         ]_vars

\* "Investment Planner" was awarded once, and award_badge was then called
\* again with that name.
C22_Witness ==
    /\ HasBadge(session_state, "Investment Planner")
    /\ last_call.fn = "award_badge"
    /\ last_call.arg = "Investment Planner"
    /\ session_state.point_messages = <<>>
    /\ IsCompleted(session_state, 5)

\* The ids in completed_challenges.
CompletedIds == {session_state.completed_challenges[i] :
                     i \in 1..Len(session_state.completed_challenges)}

RECURSIVE RewardsOfSet(_)
RewardsOfSet(ids) ==
    IF ids = {}
    THEN 0
    ELSE LET id == CHOOSE id \in ids : TRUE
         IN  ChallengePoints[id] + RewardsOfSet(ids \ {id})

\* C23: each challenge id is at most once in completed_challenges, and its
\* reward is in the points exactly once: the points are the first login's,
\* 50 for each badge, and the reward of each completed challenge, however
\* many calls followed its completion; a completed challenge stays so.
C23_ChallengesOnce ==
    /\ [](\A i, j \in 1..Len(session_state.completed_challenges) :
              session_state.completed_challenges[i]
                  = session_state.completed_challenges[j] => i = j)
    /\ [](session_state.points
              = FirstLogin(session_state) + 50 * Len(session_state.badges)
                    + RewardsOfSet(CompletedIds))
    /\ [][SubSeq(session_state'.completed_challenges, 1,
                 Len(session_state.completed_challenges))
              = session_state.completed_challenges]_vars

\* Challenge 6 is completed and check_challenges_for_export("csv"), which
\* calls complete_challenge for it again, has just run; so has challenge 5.
C23_Witness ==
    /\ IsCompleted(session_state, 6)
    /\ IsCompleted(session_state, 5)
    /\ session_state.challenges[6].progress = 3
    /\ last_call.fn = "check_challenges_for_export"
    /\ last_call.arg = "csv"
    /\ session_state.point_messages = <<>>

\* C24: the level is determined by the points: points < 100 * 2^(level-1),
\* and from level 2 on points >= 100 * 2^(level-2); points and level never
\* decrease.
C24_LevelOfPoints ==
    /\ [](/\ session_state.points < 100 * 2 ^ (session_state.level - 1)
          /\ session_state.level >= 2
                 => session_state.points >= 100 * 2 ^ (session_state.level - 2))
    /\ [][/\ session_state'.points >= session_state.points
          /\ session_state'.level >= session_state.level]_vars

\* Level 3 has been reached.
C24_Witness ==
    /\ session_state.level = 3
    /\ session_state.points >= 200

\* C25: the total shown as needed for the next level is the total at which
\* check_level_up raises the level, and the fraction shown is above 0 once
\* points have been added within the level.
LevelStart(level) == IF level = 1 THEN 0 ELSE 100 * 2 ^ (level - 2)
C25_DisplayAgrees ==
    shown.level > 0 =>
        /\ shown.next_level_points = 100 * 2 ^ (shown.level - 1)
        /\ shown.points > LevelStart(shown.level) => shown.progress[1] > 0

\* C27: challenge 5 is completed only after check_challenges_for_investing
\* has been called with each of the four calculators.
C27_AllCalculators ==
    IsCompleted(session_state, 5) => history.calculators = Calculators

\* C28: challenge 6 is completed only after check_challenges_for_export has
\* been called with each of "excel", "pdf" and "csv".
C28_AllFormats ==
    IsCompleted(session_state, 6) => history.formats = ExportFormats

(***************************************************************************)
(* Properties of StreakSpec.                                               *)
(***************************************************************************)
\* The number of consecutive days up to `day` that are in `days`.
RECURSIVE RunLength(_, _)
RunLength(days, day) ==
    IF day \in days THEN 1 + RunLength(days, day - 1) ELSE 0

Latest(days) == CHOOSE day \in days : \A other \in days : other <= day

\* C26: streak is the number of consecutive days, ending at the latest day
\* check_streak was called on, on which it was called; last_active is that
\* day; a second call on the same day changes neither streak nor points.
C26_Streak ==
    /\ [](IF history.days = {}
          THEN session_state.streak = 0 /\ session_state.last_active = NoDate
          ELSE /\ session_state.streak
                      = RunLength(history.days, Latest(history.days))
               /\ session_state.last_active = Latest(history.days))
    /\ [][(InitializeGamification \/ DisplayGamificationElements)
              /\ session_state.last_active = today
            => /\ session_state'.streak = session_state.streak
               /\ session_state'.points = session_state.points]_vars

\* A streak of three days, a gap of more than one day, and a new streak of
\* two days, the last call being the second of its day.
C26_Witness ==
    /\ {0, 1, 2, 5, 6} \subseteq history.days
    /\ ~({3, 4} \subseteq history.days)
    /\ Latest(history.days) = 6
    /\ session_state.streak = 2
    /\ last_call.fn = "display_gamification_elements"
    /\ last_call.day = 6

====
